---- MODULE Spec2Model ----
(***************************************************************************)
(* Model of quickn-oj/source-db (src/src/db.rs): DBFile, an append-only    *)
(* store of byte blobs in a master file "sources.qsdb" with a forest of    *)
(* dictionary files "dictionary/<n>.qsdd".                                 *)
(*                                                                         *)
(* Files are modelled as sequences of bytes; every record is written with  *)
(* bincode's fixed-width little-endian layout.  The process is modelled at *)
(* the granularity of one file operation per step, so that a crash can     *)
(* fall between any two file writes of new() and push().                   *)
(***************************************************************************)
EXTENDS Integers, Sequences, FiniteSets, TLC

\* ------------------------------------------------------------------------
\* Program constants (src/src/db.rs:14-19)
BYTES_HEDAER == 11
BYTES_BLOCK == 16
BYTES_DICTIONARY_HEADER == 8
BYTES_DICTIONARY_BLOCK == 16
QSDB_REVERSION == 1
DEFAULT_EXP == 4
U64_BITS == 64   \* the width of pivot: u64 (db.rs:229)
U8_MAX == 255    \* the largest exp_wrapped: Option<u8> (db.rs:74)

\* ------------------------------------------------------------------------
\* Bounds of the model
MaxExp == 2      \* new() is called with None or Some(e), e in 0..MaxExp
MaxPush == 3     \* push() calls in one behaviour
MaxNew == 2      \* new() calls in one behaviour
MaxFaults == 1   \* injected I/O failures in one behaviour
MaxCrash == 1    \* crashes in one behaviour
MaxFile == 1     \* SpecDescent: the dictionary files are 0..MaxFile
MaxEntries == 2  \* SpecDescent: entries of one dictionary file

Max(a, b) == IF a >= b THEN a ELSE b

\* ------------------------------------------------------------------------
\* bincode fixed-width little-endian encoding.  The model's integers stay
\* below 2^31, so the four high bytes of a u64 are always 0.
U8(n) == << n % 256 >>

U16(n) == << n % 256, (n \div 256) % 256 >>

U64(n) == << n % 256, (n \div 256) % 256, (n \div 65536) % 256,
             (n \div 16777216) % 256, 0, 0, 0, 0 >>

RECURSIVE DeLE(_)
DeLE(bs) == IF bs = << >> THEN 0
            ELSE IF Tail(bs) = << >> THEN bs[1]
            ELSE LET hi == DeLE(Tail(bs)) IN
                 IF hi = 0 THEN bs[1] ELSE bs[1] + 256 * hi

\* Header { reversion: u16, divisor_exp: u8, len: u64 }
DEFAULT_HEADER == [reversion |-> QSDB_REVERSION, divisor_exp |-> DEFAULT_EXP, len |-> 0]

SerHeader(hd) == U16(hd.reversion) \o U8(hd.divisor_exp) \o U64(hd.len)

\* Mutant of DeHeader: the exponent is read one byte too far.
DeHeaderShifted(bs) == [reversion |-> DeLE(SubSeq(bs, 1, 2)),
                        divisor_exp |-> bs[4],
                        len |-> DeLE(SubSeq(bs, 4, 11))]

DeHeader(bs) == [reversion |-> DeLE(SubSeq(bs, 1, 2)),
                 divisor_exp |-> bs[3],
                 len |-> DeLE(SubSeq(bs, 4, 11))]

\* Block { nth: u64, len: u64 }
SerBlock(nth, len) == U64(nth) \o U64(len)

DeBlock(bs) == [nth |-> DeLE(SubSeq(bs, 1, 8)), len |-> DeLE(SubSeq(bs, 9, 16))]

\* DictionaryHeader { len: u64 }
SerDictHeader(len) == U64(len)

\* Mutant of DeDictHeader: only the high half of the u64 is read.
DeDictHeaderHigh(bs) == [len |-> DeLE(SubSeq(bs, 5, 8))]

DeDictHeader(bs) == [len |-> DeLE(SubSeq(bs, 1, 8))]

\* Mutant of SerDictBlock: the two fields in the other order.
SerDictBlockSwapped(nth, offset) == U64(offset) \o U64(nth)

\* DictionaryBlock { nth: u64, offset: u64 }
SerDictBlock(nth, offset) == U64(nth) \o U64(offset)

DeDictBlock(bs) == [nth |-> DeLE(SubSeq(bs, 1, 8)), offset |-> DeLE(SubSeq(bs, 9, 16))]

\* seek(Start(off)) followed by a write of bs: bytes between the old end of
\* file and off read as 0; a write of no bytes leaves the file alone.
WriteAt(f, off, bs) ==
    IF bs = << >> THEN f
    ELSE [k \in 1..Max(Len(f), off + Len(bs)) |->
             IF k > off /\ k <= off + Len(bs) THEN bs[k - off]
             ELSE IF k <= Len(f) THEN f[k] ELSE 0]

\* read_exact of n bytes at offset off
CanRead(f, off, n) == off + n <= Len(f)

ReadAt(f, off, n) == SubSeq(f, off + 1, off + n)

\* ------------------------------------------------------------------------
\* Compression pipeline of push: rle::Encoder, then ari::ByteEncoder.
\* rle: a byte alone is written as itself, a run of n >= 2 equal bytes as
\* the byte twice followed by the count n - 2.
RECURSIVE RunLength(_)
RunLength(bs) == IF Len(bs) >= 2 /\ bs[2] = bs[1] THEN 1 + RunLength(Tail(bs)) ELSE 1

RECURSIVE RleEncode(_)
RleEncode(bs) ==
    IF bs = << >> THEN << >>
    ELSE LET n == RunLength(bs) IN
         (IF n = 1 THEN << bs[1] >> ELSE << bs[1], bs[1], n - 2 >>)
             \o RleEncode(SubSeq(bs, n + 1, Len(bs)))

\* ari: the coder ends its stream with a terminator symbol and the four
\* bytes of its code tail.  The entropy coding itself is outside the
\* repository; the model keeps the coded symbols as they are and appends
\* the tail, which keeps the coder injective and its output longer than
\* its input for the short sources of the model.
AriTail == << 255, 255, 255, 255 >>

AriEncode(bs) == bs \o AriTail

\* The bytes push writes after the block header (db.rs:207-219).
Payload(source, compress) == IF compress THEN AriEncode(RleEncode(source)) ELSE source

\* ------------------------------------------------------------------------
\* State
VARIABLES
    master,    \* sources.qsdb: [exists, bytes]
    dictDir,   \* the directory "dictionary" exists
    dict,      \* the files <n>.qsdd of the directory: n |-> bytes
    h,         \* the caller's DBFile: << >> or << header >>
    pc,        \* position of the running call, "idle" between calls
    op,        \* locals of the running call
    ret,       \* outcome of the last call that returned; for open(), prev is
               \* the call that returned Ok right before it
    npush,     \* push() calls so far
    nnew,      \* new() calls so far
    faults,    \* I/O failures injected so far
    ncrash,    \* crashes so far
    clean,     \* the store was made by one new() on an empty location, and
               \* no later new() or crash happened
    log,       \* the push() calls that returned, kept while clean holds
    blocks     \* the block records appended to the present master file

vars == << master, dictDir, dict, h, pc, op, ret, npush, nnew, faults, ncrash, ncrash, clean, log, blocks >>

files == << master, dictDir, dict >>

ghost == << clean, log, blocks >>

NoFile == [exists |-> FALSE, bytes |-> << >>]

NoDict == [k \in {} |-> << >>]

NoOp == [src |-> << >>, compress |-> FALSE, idx |-> 0, offset |-> 0,
         pivot |-> 0, current |-> 0, i |-> 0, reads |-> 0,
         arg |-> -1, hdr |-> DEFAULT_HEADER, hadMaster |-> FALSE, hadDict |-> FALSE,
         was |-> << << >>, [k \in {} |-> << >>] >>, bits |-> {}]

NoRet == [call |-> "none", res |-> "none", prev |-> "none", seq |-> 0, reads |-> 0,
          arg |-> -1, hadMaster |-> FALSE, hadDict |-> FALSE,
          was |-> << << >>, [k \in {} |-> << >>] >>]

\* The sources push is called with: the empty source, "a" and the run "aa".
Sources == { << >>, << 97 >>, << 97, 97 >> }

ExpArgs == {-1} \cup (0..MaxExp)   \* -1 stands for None

Init ==
    /\ master = NoFile
    /\ dictDir = FALSE
    /\ dict = NoDict
    /\ h = << >>
    /\ pc = "idle"
    /\ op = NoOp
    /\ ret = NoRet
    /\ npush = 0
    /\ nnew = 0
    /\ faults = 0
    /\ ncrash = 0
    /\ clean = FALSE
    /\ log = << >>
    /\ blocks = << >>

\* The running call returns res to its caller.
Return(call, res) ==
    /\ pc' = "idle"
    /\ op' = NoOp
    /\ ret' = [NoRet EXCEPT !.call = call, !.res = res, !.seq = op.idx,
                            !.reads = op.reads, !.arg = op.arg,
                            !.hadMaster = op.hadMaster, !.hadDict = op.hadDict,
                            !.was = op.was]


\* ------------------------------------------------------------------------
\* DBFile::new (db.rs:74-93), one step per file operation.
HeaderFor(exp_wrapped) ==
    IF exp_wrapped = -1 THEN DEFAULT_HEADER
    ELSE [DEFAULT_HEADER EXCEPT !.divisor_exp = exp_wrapped]

\* The call of new(source_db_root, exp_wrapped); the caller's previous handle
\* is dropped.  was keeps the files the call found.
New(exp_wrapped) ==
    /\ pc = "idle"
    /\ nnew < MaxNew
    /\ nnew' = nnew + 1
    /\ pc' = "new_create"
    /\ op' = [NoOp EXCEPT !.arg = exp_wrapped,
                          !.hdr = HeaderFor(exp_wrapped),
                          !.hadMaster = master.exists,
                          !.hadDict = dictDir,
                          !.was = << master.bytes, dict >>]
    /\ h' = << >>
    /\ ret' = NoRet
    /\ clean' = FALSE
    /\ log' = << >>
    /\ UNCHANGED << files, npush, faults, ncrash, blocks >>

\* inner_write_header, Mode::Create: File::create makes the master file or
\* truncates the one that is there (db.rs:119).
NewCreate ==
    /\ pc = "new_create"
    /\ master' = [exists |-> TRUE, bytes |-> << >>]
    /\ blocks' = << >>
    /\ pc' = "new_header"
    /\ UNCHANGED << dictDir, dict, h, op, ret, npush, nnew, faults, ncrash, clean, log >>

\* inner_write_header: seek, serialize_into, sync_all (db.rs:121-123).
NewHeader ==
    /\ pc = "new_header"
    /\ master' = [master EXCEPT !.bytes = WriteAt(@, 0, SerHeader(op.hdr))]
    /\ pc' = "new_dir"
    /\ UNCHANGED << dictDir, dict, h, op, ret, npush, nnew, faults, ncrash, ghost >>

\* create_dir(dictionary) (db.rs:81): fails when the directory exists.
NewDir ==
    /\ pc = "new_dir"
    /\ IF dictDir
       THEN /\ Return("new", "AlreadyExists")
            /\ UNCHANGED << dictDir, dict >>
       ELSE /\ dictDir' = TRUE
            /\ dict' = NoDict
            /\ pc' = "new_dict0"
            /\ UNCHANGED << op, ret >>
    /\ UNCHANGED << master, h, npush, nnew, faults, ncrash, ghost >>

\* inner_write_dict_header(0, .., {len: 0}, Mode::Create), then Ok(Self).
NewDict0 ==
    /\ pc = "new_dict0"
    /\ dict' = [k \in DOMAIN dict \cup {0} |-> IF k = 0 THEN SerDictHeader(0) ELSE dict[k]]
    /\ h' = << op.hdr >>
    /\ Return("new", "Ok")
    /\ clean' = (~op.hadMaster /\ ~op.hadDict)
    /\ UNCHANGED << master, dictDir, npush, nnew, faults, ncrash, log, blocks >>

\* ------------------------------------------------------------------------
\* DBFile::open (db.rs:95-108): File::open, read_exact of the 11 header
\* bytes, deserialize.
OpenResult ==
    IF ~master.exists THEN "NotFound"
    ELSE IF ~CanRead(master.bytes, 0, BYTES_HEDAER) THEN "UnexpectedEof"
    ELSE "Ok"

Open ==
    /\ pc = "idle"
    /\ h' = IF OpenResult = "Ok"
            THEN << DeHeader(ReadAt(master.bytes, 0, BYTES_HEDAER)) >>
            ELSE << >>
    /\ ret' = [NoRet EXCEPT !.call = "open", !.res = OpenResult,
                            !.prev = IF ret.res = "Ok" THEN ret.call ELSE "none",
                            !.arg = ret.arg]
    /\ UNCHANGED << files, pc, op, npush, nnew, faults, ncrash, ghost >>

\* ------------------------------------------------------------------------
\* The descent of push_dict (db.rs:229-260) up to the file that receives
\* the entry: pivot is 1 << divisor_exp, current the sequence number, i the
\* file at hand.  reads counts the calls of dict_get.
Pivot(divisor_exp) == 2 ^ divisor_exp

\* Mutant of Halve: the shift without the assignment.
KeepPivot(pivot) == pivot

\* pivot >>= 1 (db.rs:259)
Halve(pivot) == pivot \div 2

\* dict_get(idx, i) (db.rs:167-180)
DictGetResult(d, idx, i) ==
    IF idx \notin DOMAIN d THEN "NotFound"
    ELSE IF ~CanRead(d[idx], BYTES_DICTIONARY_HEADER + BYTES_DICTIONARY_BLOCK * i,
                     BYTES_DICTIONARY_BLOCK) THEN "UnexpectedEof"
    ELSE "Ok"

DictGet(d, idx, i) ==
    DeDictBlock(ReadAt(d[idx], BYTES_DICTIONARY_HEADER + BYTES_DICTIONARY_BLOCK * i,
                       BYTES_DICTIONARY_BLOCK))

RECURSIVE Locate(_, _, _, _, _)
Locate(d, i, current, pivot, reads) ==
    IF current % pivot = 0
    THEN [res |-> "Ok", file |-> i, reads |-> reads]
    ELSE IF DictGetResult(d, i, current \div pivot) # "Ok"
    THEN [res |-> DictGetResult(d, i, current \div pivot), file |-> i, reads |-> reads + 1]
    ELSE Locate(d, DictGet(d, i, current \div pivot).nth, current % pivot,
                Halve(pivot), reads + 1)

\* ------------------------------------------------------------------------
\* DBFile::push (db.rs:191-222) with push_dict (db.rs:224-268), one step per
\* file operation.
Logged(ok) ==
    IF clean THEN Append(log, [src |-> op.src, compress |-> op.compress, ok |-> ok,
                               seq |-> op.idx])
    ELSE log

PushReturn(res) ==
    /\ Return("push", res)
    /\ log' = Logged(res = "Ok")

\* The call of push(source, compress): self.header.len += 1 (db.rs:192).
Push(source, compress) ==
    /\ pc = "idle"
    /\ h # << >>
    /\ npush < MaxPush
    /\ npush' = npush + 1
    /\ h' = << [h[1] EXCEPT !.len = @ + 1] >>
    /\ op' = [NoOp EXCEPT !.src = source, !.compress = compress, !.idx = h[1].len + 1]
    /\ pc' = "push_header"
    /\ ret' = NoRet
    /\ UNCHANGED << files, nnew, faults, ncrash, ghost >>

\* inner_write_header(.., Mode::Modification), then the open of the master
\* file and metadata().len() (db.rs:193-198).
PushHeader ==
    /\ pc = "push_header"
    /\ IF ~master.exists
       THEN /\ PushReturn("NotFound")
            /\ UNCHANGED master
       ELSE /\ master' = [master EXCEPT !.bytes = WriteAt(@, 0, SerHeader(h[1]))]
            /\ op' = [op EXCEPT !.offset = Len(master'.bytes),
                                !.pivot = Pivot(h[1].divisor_exp),
                                !.current = op.idx,
                                !.i = 0]
            /\ pc' = "push_dict"
            /\ UNCHANGED << ret, log >>
    /\ UNCHANGED << dictDir, dict, h, npush, nnew, faults, ncrash, clean, blocks >>

\* push_dict: one turn of the loop (db.rs:232-260), which breaks to the
\* entry write, fails in dict_get or descends one level.
PushDictStep ==
    /\ pc = "push_dict"
    /\ IF op.current % op.pivot = 0
       THEN /\ pc' = "dict_header"
            /\ UNCHANGED << op, ret, log >>
       ELSE IF DictGetResult(dict, op.i, op.current \div op.pivot) # "Ok"
       THEN /\ pc' = "idle"
            /\ op' = NoOp
            /\ ret' = [NoRet EXCEPT !.call = "push",
                                    !.res = DictGetResult(dict, op.i, op.current \div op.pivot),
                                    !.seq = op.idx,
                                    !.reads = op.reads + 1]
            /\ log' = Logged(FALSE)
       ELSE /\ op' = [op EXCEPT !.i = DictGet(dict, op.i, op.current \div op.pivot).nth,
                                !.current = op.current % op.pivot,
                                !.pivot = Halve(op.pivot),
                                !.reads = op.reads + 1]
            /\ UNCHANGED << pc, ret, log >>
    /\ UNCHANGED << files, h, npush, nnew, faults, ncrash, clean, blocks >>

\* inner_read_dict_header(i), dict_header.len += 1, inner_write_dict_header
\* (i, .., Mode::Modification) (db.rs:234-241).
DictHeaderResult ==
    IF op.i \notin DOMAIN dict THEN "NotFound"
    ELSE IF ~CanRead(dict[op.i], 0, BYTES_DICTIONARY_HEADER) THEN "UnexpectedEof"
    ELSE "Ok"

DictHeader ==
    /\ pc = "dict_header"
    /\ IF DictHeaderResult = "Ok"
       THEN /\ dict' = [dict EXCEPT ![op.i] =
                           WriteAt(@, 0, SerDictHeader(
                               DeDictHeader(ReadAt(@, 0, BYTES_DICTIONARY_HEADER)).len + 1))]
            /\ pc' = "dict_append"
            /\ UNCHANGED << op, ret, log >>
       ELSE /\ PushReturn(DictHeaderResult)
            /\ UNCHANGED dict
    /\ UNCHANGED << master, dictDir, h, npush, nnew, faults, ncrash, clean, blocks >>

\* seek(End(0)), serialize_into(dict_block).ok() (db.rs:242-253)
DictAppend ==
    /\ pc = "dict_append"
    /\ dict' = [dict EXCEPT ![op.i] = WriteAt(@, Len(@), SerDictBlock(op.idx, op.offset))]
    /\ pc' = "dict_create"
    /\ UNCHANGED << master, dictDir, h, op, ret, npush, nnew, faults, ncrash, ghost >>

\* inner_write_dict_header(idx, .., {len: 0}, Mode::Create) (db.rs:261-266):
\* File::create makes <idx>.qsdd or truncates the one that is there.
DictCreate ==
    /\ pc = "dict_create"
    /\ dict' = [k \in DOMAIN dict \cup {op.idx} |->
                   IF k = op.idx THEN SerDictHeader(0) ELSE dict[k]]
    /\ pc' = "block"
    /\ UNCHANGED << master, dictDir, h, op, ret, npush, nnew, faults, ncrash, ghost >>

\* seek(Start(metadata.len())), serialize_into(block).ok() (db.rs:200-205);
\* block.len is source.len().
BlockHeader ==
    /\ pc = "block"
    /\ master' = [master EXCEPT !.bytes = WriteAt(@, op.offset, SerBlock(op.idx, Len(op.src)))]
    /\ blocks' = Append(blocks, [off |-> op.offset, written |-> 0, done |-> FALSE])
    /\ pc' = "payload"
    /\ UNCHANGED << dictDir, dict, h, op, ret, npush, nnew, faults, ncrash, clean, log >>

\* seek(Start(metadata.len() + BYTES_BLOCK)), write_all of the payload,
\* sync_all, Ok(()) (db.rs:206-221).
MarkWritten(bl, off, n) ==
    [k \in 1..Len(bl) |-> IF bl[k].off = off
                          THEN [bl[k] EXCEPT !.written = n, !.done = TRUE]
                          ELSE bl[k]]

WritePayload ==
    /\ pc = "payload"
    /\ master' = [master EXCEPT !.bytes =
                     WriteAt(@, op.offset + BYTES_BLOCK, Payload(op.src, op.compress))]
    /\ blocks' = MarkWritten(blocks, op.offset, Len(Payload(op.src, op.compress)))
    /\ PushReturn("Ok")
    /\ UNCHANGED << dictDir, dict, h, npush, nnew, faults, ncrash, clean >>

\* ------------------------------------------------------------------------
\* Failures
\* A file operation whose error is propagated with `?` fails: the call
\* returns the error and the file is left as it was.
FailPcs == {"new_create", "new_dir", "new_dict0", "push_header", "dict_header",
            "dict_create", "payload"}

Fail ==
    /\ pc \in FailPcs
    /\ faults < MaxFaults
    /\ faults' = faults + 1
    /\ pc' = "idle"
    /\ op' = NoOp
    /\ ret' = [NoRet EXCEPT !.call = IF pc \in {"new_create", "new_dir", "new_dict0"}
                                     THEN "new" ELSE "push",
                            !.res = "Other", !.seq = op.idx, !.reads = op.reads,
                            !.arg = op.arg,
                            !.hadMaster = op.hadMaster, !.hadDict = op.hadDict,
                            !.was = op.was]
    /\ log' = IF pc \in {"new_create", "new_dir", "new_dict0"} THEN log ELSE Logged(FALSE)
    /\ UNCHANGED << files, h, npush, nnew, ncrash, clean, blocks >>

\* A write whose error is dropped with .ok() fails (db.rs:205, db.rs:253):
\* nothing is written and the call goes on.
Drop ==
    /\ pc \in {"dict_append", "block"}
    /\ faults < MaxFaults
    /\ faults' = faults + 1
    /\ pc' = IF pc = "dict_append" THEN "dict_create" ELSE "payload"
    /\ UNCHANGED << files, h, op, ret, npush, nnew, ncrash, ghost >>

\* serialize_into(..).unwrap() of new()'s header panics on a failed write
\* (db.rs:122): the fields written before the failure stay in the file.
TornHeader(n) ==
    /\ pc = "new_header"
    /\ faults < MaxFaults
    /\ faults' = faults + 1
    /\ master' = [master EXCEPT !.bytes = WriteAt(@, 0, SubSeq(SerHeader(op.hdr), 1, n))]
    /\ h' = << >>
    /\ pc' = "idle"
    /\ op' = NoOp
    /\ ret' = [NoRet EXCEPT !.call = "new", !.res = "panic", !.arg = op.arg,
                            !.hadMaster = op.hadMaster, !.hadDict = op.hadDict,
                            !.was = op.was]
    /\ UNCHANGED << dictDir, dict, npush, nnew, ncrash, ghost >>

\* The process dies between two file operations of a call.
Crash ==
    /\ pc # "idle"
    /\ ncrash < MaxCrash
    /\ ncrash' = ncrash + 1
    /\ pc' = "idle"
    /\ op' = NoOp
    /\ h' = << >>
    /\ ret' = [NoRet EXCEPT !.call = "crash"]
    /\ clean' = FALSE
    /\ log' = << >>
    /\ UNCHANGED << files, npush, nnew, faults, blocks >>

\* ------------------------------------------------------------------------
Next ==
    \/ \E e \in ExpArgs : New(e)
    \/ NewCreate
    \/ NewHeader
    \/ NewDir
    \/ NewDict0
    \/ Open
    \/ \E s \in Sources, c \in BOOLEAN : Push(s, c)
    \/ PushHeader
    \/ PushDictStep
    \/ DictHeader
    \/ DictAppend
    \/ DictCreate
    \/ BlockHeader
    \/ WritePayload
    \/ Fail
    \/ Drop
    \/ \E n \in {0, 2, 3} : TornHeader(n)
    \/ Crash

Spec == Init /\ [][Next]_vars

\* ------------------------------------------------------------------------
\* The store's life without push: new() and open() on a location that holds
\* nothing, or a master file cut at any length, with or without the
\* dictionary directory.
Exps == { HeaderFor(e).divisor_exp : e \in ExpArgs }

MasterImages ==
    { SerHeader([reversion |-> QSDB_REVERSION, divisor_exp |-> e, len |-> n])
          \o (IF n > 0 THEN SerBlock(n, 0) ELSE << >>) :
      e \in Exps, n \in 0..MaxPush }

InitAny ==
    /\ \/ master = NoFile
       \/ \E image \in MasterImages : \E n \in 0..Len(image) :
              master = [exists |-> TRUE, bytes |-> SubSeq(image, 1, n)]
    /\ \/ dictDir = FALSE /\ dict = NoDict
       \/ dictDir = TRUE /\ dict = [k \in {0} |-> SerDictHeader(0)]
    /\ h = << >>
    /\ pc = "idle"
    /\ op = NoOp
    /\ ret = NoRet
    /\ npush = 0
    /\ nnew = 0
    /\ faults = 0
    /\ ncrash = 0
    /\ clean = FALSE
    /\ log = << >>
    /\ blocks = << >>

NextLifecycle ==
    \/ \E e \in ExpArgs : New(e)
    \/ NewCreate
    \/ NewHeader
    \/ NewDir
    \/ NewDict0
    \/ Open
    \/ Fail
    \/ \E n \in {0, 2, 3} : TornHeader(n)
    \/ Crash

SpecLifecycle == InitAny /\ [][NextLifecycle]_vars

\* ------------------------------------------------------------------------
\* The descent of push_dict on its own: any sequence number, any exponent
\* and any forest of dictionary files, taken at the entry of the loop.
RECURSIVE SerEntries(_)
SerEntries(keys) ==
    IF keys = << >> THEN << >>
    ELSE SerDictBlock(Head(keys), BYTES_HEDAER) \o SerEntries(Tail(keys))

DictImage(keys) == SerDictHeader(Len(keys)) \o SerEntries(keys)

KeySeqs == UNION { [1..n -> 1..MaxFile] : n \in 0..MaxEntries }

InitDescent ==
    /\ \E e \in Exps, idx \in 1..MaxPush :
          /\ h = << [reversion |-> QSDB_REVERSION, divisor_exp |-> e, len |-> idx] >>
          /\ master = [exists |-> TRUE, bytes |-> SerHeader(h[1])]
          /\ op = [NoOp EXCEPT !.idx = idx, !.offset = BYTES_HEDAER,
                               !.pivot = Pivot(e), !.current = idx, !.i = 0]
    /\ dictDir = TRUE
    /\ \E D \in SUBSET (0..MaxFile) : \E ks \in [D -> KeySeqs] :
          dict = [k \in D |-> DictImage(ks[k])]
    /\ pc = "push_dict"
    /\ ret = NoRet
    /\ npush = 1
    /\ nnew = 0
    /\ faults = 0
    /\ ncrash = 0
    /\ clean = FALSE
    /\ log = << >>
    /\ blocks = << >>

NextDescent == PushDictStep

SpecDescent == InitDescent /\ [][NextDescent]_vars

\* ------------------------------------------------------------------------
\* The store in use: made by one new() on an empty location, then open() and
\* push() calls that run to their end, with no I/O failure and no crash.
InitCreated ==
    /\ \E e \in ExpArgs :
          /\ h = << HeaderFor(e) >>
          /\ master = [exists |-> TRUE, bytes |-> SerHeader(HeaderFor(e))]
          /\ ret = [NoRet EXCEPT !.call = "new", !.res = "Ok", !.arg = e]
    /\ dictDir = TRUE
    /\ dict = [k \in {0} |-> SerDictHeader(0)]
    /\ pc = "idle"
    /\ op = NoOp
    /\ npush = 0
    /\ nnew = 1
    /\ faults = 0
    /\ ncrash = 0
    /\ clean = TRUE
    /\ log = << >>
    /\ blocks = << >>

NextPush ==
    \/ Open
    \/ \E s \in Sources, c \in BOOLEAN : Push(s, c)
    \/ PushHeader
    \/ PushDictStep
    \/ DictHeader
    \/ DictAppend
    \/ DictCreate
    \/ BlockHeader
    \/ WritePayload

SpecPush == InitCreated /\ [][NextPush]_vars

\* ------------------------------------------------------------------------
\* The pivot of push_dict at its full width: let mut pivot: u64 = 1 << e for
\* every u8 e (db.rs:229).  A u64 is kept as the set of its one-bits, so
\* that 2^63 needs no integer of that size.  A shift by 64 or more panics
\* in a build with overflow checks and shifts by e mod 64 in a build without.
Builds == {"debug", "release"}

Shl1(exp, build) ==
    IF exp < U64_BITS THEN [res |-> "Ok", bits |-> {exp}]
    ELSE IF build = "debug" THEN [res |-> "panic", bits |-> {}]
    ELSE [res |-> "Ok", bits |-> {exp % U64_BITS}]

\* pivot >>= 1 (db.rs:259)
ShrBits(bits) == { b - 1 : b \in { c \in bits : c >= 1 } }

\* n % 2^p and n / 2^p (db.rs:233, 256, 258); 2^p > n when p >= n.
ModPow2(n, p) == IF p >= n THEN n ELSE n % (2 ^ p)

DivPow2(n, p) == IF p >= n THEN 0 ELSE n \div (2 ^ p)

InitShift ==
    /\ \E e \in 0..U8_MAX, idx \in 1..MaxPush :
          /\ h = << [reversion |-> QSDB_REVERSION, divisor_exp |-> e, len |-> idx] >>
          /\ master = [exists |-> TRUE, bytes |-> SerHeader(h[1])]
          /\ op = [NoOp EXCEPT !.idx = idx, !.offset = BYTES_HEDAER]
    /\ dictDir = TRUE
    /\ \E D \in SUBSET (0..MaxFile) : \E ks \in [D -> KeySeqs] :
          dict = [k \in D |-> DictImage(ks[k])]
    /\ pc = "shift"
    /\ ret = NoRet
    /\ npush = 1
    /\ nnew = 0
    /\ faults = 0
    /\ ncrash = 0
    /\ clean = FALSE
    /\ log = << >>
    /\ blocks = << >>

\* let mut pivot: u64 = 1 << self.header.divisor_exp; current = idx; i = 0
ShiftPivot(build) ==
    /\ pc = "shift"
    /\ LET r == Shl1(h[1].divisor_exp, build) IN
       IF r.res = "panic"
       THEN /\ pc' = "idle"
            /\ op' = NoOp
            /\ ret' = [NoRet EXCEPT !.call = "push", !.res = "panic", !.seq = op.idx]
       ELSE /\ pc' = "shift_loop"
            /\ op' = [op EXCEPT !.bits = r.bits, !.current = op.idx, !.i = 0]
            /\ UNCHANGED ret
    /\ UNCHANGED << files, h, npush, nnew, faults, ncrash, ghost >>

\* One turn of the loop (db.rs:232-260); a pivot of 0 panics in
\* current % pivot.
ShiftLoop ==
    /\ pc = "shift_loop"
    /\ IF op.bits = {}
       THEN /\ pc' = "idle"
            /\ op' = NoOp
            /\ ret' = [NoRet EXCEPT !.call = "push", !.res = "panic", !.seq = op.idx,
                                    !.reads = op.reads]
       ELSE LET p == CHOOSE b \in op.bits : TRUE IN
            IF ModPow2(op.current, p) = 0
            THEN /\ pc' = "dict_header"
                 /\ UNCHANGED << op, ret >>
            ELSE IF DictGetResult(dict, op.i, DivPow2(op.current, p)) # "Ok"
            THEN /\ pc' = "idle"
                 /\ op' = NoOp
                 /\ ret' = [NoRet EXCEPT !.call = "push",
                                         !.res = DictGetResult(dict, op.i, DivPow2(op.current, p)),
                                         !.seq = op.idx,
                                         !.reads = op.reads + 1]
            ELSE /\ op' = [op EXCEPT !.i = DictGet(dict, op.i, DivPow2(op.current, p)).nth,
                                     !.current = ModPow2(op.current, p),
                                     !.bits = ShrBits(op.bits),
                                     !.reads = op.reads + 1]
                 /\ UNCHANGED << pc, ret >>
    /\ UNCHANGED << files, h, npush, nnew, faults, ncrash, ghost >>

NextShift ==
    \/ \E b \in Builds : ShiftPivot(b)
    \/ ShiftLoop

SpecShift == InitShift /\ [][NextShift]_vars

\* ------------------------------------------------------------------------
\* The read side.  The entries of a dictionary file, as dict_get reads them
\* (db.rs:173-178).
Entries(f) ==
    [k \in 1..((Len(f) - BYTES_DICTIONARY_HEADER) \div BYTES_DICTIONARY_BLOCK) |->
        DeDictBlock(ReadAt(f, BYTES_DICTIONARY_HEADER + BYTES_DICTIONARY_BLOCK * (k - 1),
                           BYTES_DICTIONARY_BLOCK))]

HasKey(f, s) == \E k \in DOMAIN Entries(f) : Entries(f)[k].nth = s

\* The persisted Header of the master file.
Persisted == DeHeader(ReadAt(master.bytes, 0, BYTES_HEDAER))

\* The inverse of the compression pipeline.
AriValid(bs) == Len(bs) >= Len(AriTail) /\ SubSeq(bs, Len(bs) - Len(AriTail) + 1, Len(bs)) = AriTail

AriDecode(bs) == SubSeq(bs, 1, Len(bs) - Len(AriTail))

RECURSIVE RleValid(_)
RleValid(bs) ==
    IF bs = << >> THEN TRUE
    ELSE IF Len(bs) >= 2 /\ bs[2] = bs[1]
    THEN Len(bs) >= 3 /\ RleValid(SubSeq(bs, 4, Len(bs)))
    ELSE RleValid(Tail(bs))

RECURSIVE RleDecode(_)
RleDecode(bs) ==
    IF bs = << >> THEN << >>
    ELSE IF Len(bs) >= 2 /\ bs[2] = bs[1]
    THEN [k \in 1..(bs[3] + 2) |-> bs[1]] \o RleDecode(SubSeq(bs, 4, Len(bs)))
    ELSE << bs[1] >> \o RleDecode(Tail(bs))

Decode(bs) ==
    IF AriValid(bs) /\ RleValid(AriDecode(bs))
    THEN [res |-> "Ok", bytes |-> RleDecode(AriDecode(bs))]
    ELSE [res |-> "CompressionFailure", bytes |-> << >>]

\* readRecord(offset): the block header at offset, then payloadLength bytes.
ReadRecord(offset, wasCompressed) ==
    IF ~CanRead(master.bytes, offset, BYTES_BLOCK)
    THEN [res |-> "CorruptRecord", bytes |-> << >>]
    ELSE LET b == DeBlock(ReadAt(master.bytes, offset, BYTES_BLOCK)) IN
         IF ~CanRead(master.bytes, offset + BYTES_BLOCK, b.len)
         THEN [res |-> "CorruptRecord", bytes |-> << >>]
         ELSE IF wasCompressed
         THEN Decode(ReadAt(master.bytes, offset + BYTES_BLOCK, b.len))
         ELSE [res |-> "Ok", bytes |-> ReadAt(master.bytes, offset + BYTES_BLOCK, b.len)]

\* get(sequenceNumber, wasCompressed): the descent of push_dict, the entry of
\* the file it ends at whose key is the sequence number, the record at the
\* offset of that entry.
Get(s, wasCompressed) ==
    LET l == Locate(dict, 0, s, Pivot(h[1].divisor_exp), 0) IN
    IF l.res # "Ok" \/ l.file \notin DOMAIN dict
    THEN [res |-> "NotFound", bytes |-> << >>]
    ELSE IF ~HasKey(dict[l.file], s)
    THEN [res |-> "NotFound", bytes |-> << >>]
    ELSE LET es == Entries(dict[l.file])
             k == CHOOSE k \in DOMAIN es :
                      es[k].nth = s /\ \A j \in 1..(k - 1) : es[j].nth # s
         IN ReadRecord(es[k].offset, wasCompressed)

\* ------------------------------------------------------------------------
\* C1: on a store made by one new() on an empty location, with no crash and
\* no I/O failure, after any number of push calls get(i) returns the bytes
\* of the i-th push, for the compress flag that push was given.
C1_RoundTrip ==
    (clean /\ faults = 0 /\ pc = "idle" /\ h # << >>) =>
        \A i \in 1..Len(log) :
            Get(i, log[i].compress) = [res |-> "Ok", bytes |-> log[i].src]

\* ------------------------------------------------------------------------
\* C2: right after a push that returned Ok for sequence number s, the
\* descent for s ends at a dictionary file that holds an entry with key s.
C2_PushThenFound ==
    (pc = "idle" /\ ret.call = "push" /\ ret.res = "Ok" /\ h # << >>) =>
        LET l == Locate(dict, 0, ret.seq, Pivot(h[1].divisor_exp), 0) IN
        /\ l.res = "Ok"
        /\ l.file \in DOMAIN dict
        /\ HasKey(dict[l.file], ret.seq)

\* C3: on a store made by one new(), with no crash and no I/O failure, the
\* persisted entry count equals the number of push calls that returned Ok,
\* which equals the number of block records appended to the master file.
OkCount(l) == Cardinality({ i \in 1..Len(l) : l[i].ok })

C3_EntryCount ==
    (clean /\ faults = 0 /\ pc = "idle") =>
        /\ Persisted.len = OkCount(log)
        /\ OkCount(log) = Len(blocks)

\* C4: on a store made by one new(), with no crash and no I/O failure, the
\* block records of the master file carry, in increasing offset order, the
\* sequence numbers 1, 2, ..., n.
BlockAt(k) == DeBlock(ReadAt(master.bytes, blocks[k].off, BYTES_BLOCK))

C4_SequenceOrder ==
    (clean /\ faults = 0) =>
        \A k \in 1..Len(blocks) :
            /\ BlockAt(k).nth = k
            /\ \A j \in 1..(k - 1) : blocks[j].off < blocks[k].off

\* C5: the payload length stored in the header of every block record that
\* push wrote in full equals the number of payload bytes written after it.
C5_PayloadLength ==
    \A k \in 1..Len(blocks) :
        blocks[k].done => BlockAt(k).len = blocks[k].written

\* C6: with no I/O failure, new() on a location that holds a master file,
\* with or without the dictionary directory, fails with AlreadyExists and
\* returns no handle.
C6_CreateExisting ==
    (ret.call = "new" /\ ret.hadMaster /\ faults = 0) =>
        /\ ret.res = "AlreadyExists"
        /\ h = << >>

\* C7: open() returns an error and no handle when the master file is absent
\* or shorter than the 11 header bytes; with a whole header it returns a
\* handle whose header is the persisted one, which right after new(path, e)
\* is reversion 1, exponent e (4 for None), len 0; and open() changes no file.
C7_OpenResult ==
    ret.call = "open" =>
        /\ IF ~master.exists \/ Len(master.bytes) < BYTES_HEDAER
           THEN ret.res # "Ok" /\ h = << >>
           ELSE /\ ret.res = "Ok"
                /\ h # << >>
                /\ SerHeader(h[1]) = ReadAt(master.bytes, 0, BYTES_HEDAER)
        /\ ret.prev = "new" =>
               /\ ret.res = "Ok"
               /\ h = << [reversion |-> QSDB_REVERSION,
                          divisor_exp |-> IF ret.arg = -1 THEN DEFAULT_EXP ELSE ret.arg,
                          len |-> 0] >>

C7_Open == [] C7_OpenResult /\ [][ret'.call = "open" => files' = files]_vars

\* An open() that failed on a master file cut inside its header.
C7_Witness ==
    /\ ret.call = "open"
    /\ ret.res = "UnexpectedEof"
    /\ master.exists
    /\ Len(master.bytes) \in 1..(BYTES_HEDAER - 1)
    /\ h = << >>

\* C8: the descent for any sequence number and any exponent e calls dict_get
\* at most e times; every turn that stays in the loop goes one level down
\* and halves the pivot, which starts at 2^e, and the descent has ended when
\* the pivot is 1.
C8_Levels ==
    /\ pc = "push_dict" =>
           /\ op.reads <= h[1].divisor_exp
           /\ op.pivot = 2 ^ (h[1].divisor_exp - op.reads)
    /\ pc = "dict_header" => op.reads <= h[1].divisor_exp
    /\ ret.call = "push" => ret.reads <= h[1].divisor_exp

C8_DescentBound ==
    /\ [] C8_Levels
    /\ [][(pc = "push_dict" /\ pc' = "push_dict") =>
              (op'.reads = op.reads + 1 /\ 2 * op'.pivot = op.pivot)]_vars

\* A descent that went down as many levels as the exponent allows, at least
\* two, and ended there with pivot 1.
C8_Witness ==
    /\ pc = "dict_header"
    /\ op.reads = h[1].divisor_exp
    /\ op.reads >= 2
    /\ op.pivot = 1

\* C9: at every point of every push after its header write, the persisted
\* entry count is at least the number of block records in the master file
\* and at least every sequence number found in a block record or in a
\* dictionary entry.
PushPcs == {"push_header", "push_dict", "dict_header", "dict_append", "dict_create",
            "block", "payload"}

C9_HeaderFirst ==
    pc \in (PushPcs \ {"push_header"}) =>
        /\ Persisted.len >= Len(blocks)
        /\ \A k \in 1..Len(blocks) : BlockAt(k).nth <= Persisted.len
        /\ \A f \in DOMAIN dict : \A k \in DOMAIN Entries(dict[f]) :
               Entries(dict[f])[k].nth <= Persisted.len

\* C10: no step of a push shortens the master file or a dictionary file, or
\* changes a byte written earlier outside the master header and the
\* dictionary headers.
KeepsTail(old, new, headerBytes) ==
    /\ Len(new) >= Len(old)
    /\ \A k \in (headerBytes + 1)..Len(old) : new[k] = old[k]

AppendOnlyStep ==
    /\ KeepsTail(master.bytes, master'.bytes, BYTES_HEDAER)
    /\ \A f \in DOMAIN dict :
           /\ f \in DOMAIN dict'
           /\ KeepsTail(dict[f], dict'[f], BYTES_DICTIONARY_HEADER)

C10_AppendOnly == [][(pc \in PushPcs) => AppendOnlyStep]_vars

\* ------------------------------------------------------------------------
\* C11: in every reachable state, a crash between two file writes of a push
\* included, every entry {key k, value v} of every dictionary file points to
\* an offset v at which the master file holds a whole block header whose
\* sequence number is k.
EntryHasBlock(e) ==
    /\ CanRead(master.bytes, e.offset, BYTES_BLOCK)
    /\ DeBlock(ReadAt(master.bytes, e.offset, BYTES_BLOCK)).nth = e.nth

C11_BlockBeforeEntry ==
    \A f \in DOMAIN dict : \A k \in DOMAIN Entries(dict[f]) :
        EntryHasBlock(Entries(dict[f])[k])

\* C12: after open() and push() calls that ran to their end with no I/O
\* failure on a store made by new(), every entry {key k, value v} of every
\* dictionary file points to the block header with sequence number k, v being
\* the length the master file had when that block was appended, which is 11
\* for the first block; the block is appended at the end of the master file
\* and at the offset its entry holds.
C12_EntryOffsets ==
    pc = "idle" =>
        /\ \A f \in DOMAIN dict : \A k \in DOMAIN Entries(dict[f]) :
               /\ EntryHasBlock(Entries(dict[f])[k])
               /\ \E j \in 1..Len(blocks) : blocks[j].off = Entries(dict[f])[k].offset
        /\ blocks # << >> => blocks[1].off = BYTES_HEDAER

C12_AppendAtEntry ==
    (pc = "block" /\ pc' = "payload") =>
        /\ op.offset = Len(master.bytes)
        /\ \E f \in DOMAIN dict : \E k \in DOMAIN Entries(dict[f]) :
               Entries(dict[f])[k] = [nth |-> op.idx, offset |-> Len(master.bytes)]

OkSeqs(l) == { l[i].seq : i \in { j \in 1..Len(l) : l[j].ok } }

C13_IndexFiles ==
    /\ (pc = "idle" /\ ret.call = "push" /\ ret.res = "Ok") =>
           /\ ret.seq \in DOMAIN dict
           /\ dict[ret.seq] = SerDictHeader(0)
    /\ (clean /\ pc = "idle") => DOMAIN dict = {0} \cup OkSeqs(log)

\* C14: after push calls with no failed write, the len of the header of
\* every dictionary file is the number of 16-byte entries behind the header;
\* a push raises the len of one file by one, appends one entry with its
\* sequence number as key at the end of that same file, and changes no other
\* byte of a dictionary file that exists.
DictLen(f) == DeDictHeader(ReadAt(f, 0, BYTES_DICTIONARY_HEADER)).len

C14_Counts ==
    pc = "idle" =>
        \A f \in DOMAIN dict :
            /\ CanRead(dict[f], 0, BYTES_DICTIONARY_HEADER)
            /\ Len(dict[f]) = BYTES_DICTIONARY_HEADER
                                  + BYTES_DICTIONARY_BLOCK * Len(Entries(dict[f]))
            /\ DictLen(dict[f]) = Len(Entries(dict[f]))

OthersKept(file) ==
    \A f \in DOMAIN dict \ {file} : f \in DOMAIN dict' /\ dict'[f] = dict[f]

C14_Insert ==
    /\ (pc = "dict_header" /\ pc' = "dict_append") =>
           /\ DictLen(dict'[op.i]) = DictLen(dict[op.i]) + 1
           /\ Entries(dict'[op.i]) = Entries(dict[op.i])
           /\ OthersKept(op.i)
    /\ (pc = "dict_append" /\ pc' = "dict_create") =>
           /\ DictLen(dict'[op.i]) = DictLen(dict[op.i])
           /\ Len(dict'[op.i]) = Len(dict[op.i]) + BYTES_DICTIONARY_BLOCK
           /\ Entries(dict'[op.i]) =
                  Append(Entries(dict[op.i]), [nth |-> op.idx, offset |-> op.offset])
           /\ OthersKept(op.i)
    /\ (pc \in PushPcs \ {"dict_header", "dict_append"}) =>
           \A f \in DOMAIN dict : f \in DOMAIN dict' /\ dict'[f] = dict[f]

C14_EntryCounts == [] C14_Counts /\ [][C14_Insert]_vars

\* The root file after two insertions: len 2 and two entries, the last with
\* the sequence number of the push that just returned.
C14_Witness ==
    /\ pc = "idle"
    /\ ret.call = "push"
    /\ ret.res = "Ok"
    /\ DictLen(dict[0]) = 2
    /\ Len(Entries(dict[0])) = 2
    /\ Entries(dict[0])[2].nth = ret.seq

\* C15: whenever push has returned Ok for sequence number s, a dictionary
\* file holds an entry with key s and the master file holds, at the offset of
\* that entry, the 16-byte block header with sequence number s: no push
\* returns Ok after a failed write of the entry or of the block header.
C15_NoDroppedWrite ==
    (pc = "idle" /\ ret.call = "push" /\ ret.res = "Ok") =>
        \E f \in DOMAIN dict : \E k \in DOMAIN Entries(dict[f]) :
            /\ Entries(dict[f])[k].nth = ret.seq
            /\ EntryHasBlock(Entries(dict[f])[k])

\* C16: on a store made by one new(), with no crash and no I/O failure, every
\* read of the descent (file i, position current div pivot) is of a position
\* below the number of entries of file i, and every push returns Ok.
C16_DescentReads ==
    (clean /\ faults = 0) =>
        /\ (pc = "push_dict" /\ op.current % op.pivot # 0) =>
               /\ op.i \in DOMAIN dict
               /\ op.current \div op.pivot < Len(Entries(dict[op.i]))
        /\ (pc = "idle" /\ ret.call = "push") => ret.res = "Ok"

\* C17: a push that returned an error has left the entry count as it was
\* before the call, which is one below the sequence number the call took: in
\* the header of the handle and, when no write failed, in the persisted
\* header of the master file.
C17_FailedPushKeepsCount ==
    (pc = "idle" /\ ret.call = "push" /\ ret.res # "Ok" /\ h # << >>) =>
        /\ h[1].len = ret.seq - 1
        /\ faults = 0 => Persisted.len = ret.seq - 1

\* C18: a new() that returned an error on a location that held a master file
\* and the dictionary directory has left the master file and every
\* dictionary file as the call found them.
C18_CreateKeepsStore ==
    (pc = "idle" /\ ret.call = "new" /\ ret.res \in {"AlreadyExists", "Other"}
         /\ ret.hadMaster /\ ret.hadDict) =>
        /\ master.exists
        /\ master.bytes = ret.was[1]
        /\ dict = ret.was[2]

\* C19: for every exponent e of 0..255 the pivot the descent starts with is
\* 2^e, computed with no overflow and no wrap-around of the shift, and the
\* pivot is not 0 at any turn of the loop, where it is the divisor of
\* current % pivot and current / pivot.
C19_PivotExact ==
    /\ ret.res # "panic"
    /\ (pc = "shift_loop" /\ op.reads = 0) =>
           /\ h[1].divisor_exp < U64_BITS
           /\ op.bits = {h[1].divisor_exp}
    /\ pc = "shift_loop" => op.bits # {}

TypeOK ==
    /\ master.exists \in BOOLEAN
    /\ Len(h) <= 1
    /\ npush \in 0..MaxPush

====
